---- MODULE Spec2Model ----
(***************************************************************************)
(* Data ingestion and storage pipeline of quant-trading-supportive-system. *)
(*                                                                         *)
(* Spec         : callers of DuckDBManager.insert_ohlcv on one store.      *)
(* SpecBackfill : scripts/backfill.py backfill_data driving a connector's  *)
(*                fetch_ohlcv_range, the store and the checkpoint file.    *)
(* SpecEcho     : the same, against an exchange that may repeat rows.      *)
(* SpecRange    : the same, with an exchange outage and a fair page loop.  *)
(* SpecFetch    : direct callers of a connector's fetch_ohlcv and          *)
(*                fetch_ohlcv_range, with any timeframe.                   *)
(* SpecLive     : scripts/live.py LiveStreamManager fed with kline frames: *)
(*                buffer, flush, retry counts, dead-letter files.          *)
(* SpecStream   : the stream client (WebSocketManager, BinanceWebSocket),  *)
(*                its users, its transport and start_streaming;            *)
(*                SpecStreamFair adds the fairness of the event loop.      *)
(* SpecThreads  : threads calling insert_ohlcv on one shared store,        *)
(*                statement by statement.                                  *)
(* SpecGaps     : DuckDBManager.detect_gaps over the candles of one key,   *)
(*                with timestamps in seconds.                              *)
(* SpecArchive  : ParquetManager on one dataset: write_partition step by   *)
(*                step, read_partition, compact_partitions, and the files  *)
(*                of the partition directories.                            *)
(*                                                                         *)
(* Timestamps are counted in units of one timeframe interval.  Symbol and  *)
(* timeframe are fixed, so a series (exchange, symbol, timeframe) is named *)
(* by its exchange.                                                        *)
(***************************************************************************)
EXTENDS Bags, FiniteSets, Integers, Sequences, TLC

\* ------------------------------------------------------------------ bounds
\* timestamps of the candles handed to insert_ohlcv and handle_kline are 0..MaxTs
MaxTs == 1
\* longest DataFrame a caller hands to insert_ohlcv
MaxBatch == 2
\* end_date of a backfill ("now"); the exchange has candles at 0..EndTs-1
EndTs == 3
\* batch_size of fetch_ohlcv_range, in candles
BatchSize == 2
\* backfill_data is run at most this often
MaxRuns == 2
\* failed requests counted for one page of fetch_ohlcv_range; further
\* failures of that page are not told apart
MaxAttempts == 4

\* candles the live stream delivers at most
MaxKlines == 3
\* buffer.max_size_records of configs/streaming.yaml
BufferSize == 2

\* successful connects of the stream client
MaxConnects == 3
\* subscribe calls a user of the stream client makes
MaxSubscribes == 2
\* max_reconnect_delay, the constructor argument of the stream client that
\* caps the reconnect delay, in seconds
max_reconnect_delay == 4

\* insert_ohlcv calls the threads make in total
MaxInserts == 3

\* the candles detect_gaps looks at have timestamps of 30 s times 0..MaxSlot
MaxSlot == 10

\* ------------------------------------------------------ program constants
max_retries == 3
max_retry_count == 3
BinanceMaxLimit == 1000
CoinbaseMaxLimit == 300

\* ------------------------------------------------------------- candle data
Exchanges == {"binance", "coinbase"}

\* OHLCV field values: a valid candle and an invalid one (high < open)
CandleA == [open |-> 2, high |-> 3, low |-> 1, close |-> 2, volume |-> 1]
CandleX == [open |-> 2, high |-> 1, low |-> 1, close |-> 1, volume |-> 1]

Row(e, t, c) ==
    [exchange |-> e, timestamp |-> t, open |-> c.open, high |-> c.high,
     low |-> c.low, close |-> c.close, volume |-> c.volume]

\* PRIMARY KEY (exchange, symbol, timeframe, timestamp)
Key(r) == <<r.exchange, r.timestamp>>

\* the WHERE clause of validate_data_integrity's invalid_ohlc query, negated
ValidRow(r) ==
    ~ (\/ r.high < r.low
       \/ r.high < r.open
       \/ r.high < r.close
       \/ r.low > r.open
       \/ r.low > r.close
       \/ r.volume < 0)

NoMeta == [total_records |-> 0]

VARIABLES
    ohlcv_raw,              \* table ohlcv_raw: a bag of rows
    data_quality_metadata,  \* table data_quality_metadata: exchange -> row or NoMeta
    df,                     \* the DataFrame of the current / last insert_ohlcv call
    replace_duplicates,     \* its mode
    pc,                     \* "idle" | "called": a call of insert_ohlcv is in progress
    result,                 \* how the last call ended
    repeated,               \* the call in progress repeats the preceding successful replace call
    market,                 \* the candles the exchanges serve: timestamp -> candle
    checkpoint,             \* checkpoint files: exchange -> checkpoint or NoCheckpoint
    bf,                     \* the running backfill_data: its locals and position
    last_run,               \* how the last backfill_data ended
    range_start,            \* start_date of the last run per exchange that did not resume
    runs,                   \* number of backfill_data runs so far
    outage,                 \* the exchange host fails every request from now on
    fr,                     \* how the last direct call of a connector's fetch method ended
    echo                    \* timestamps whose candle the exchanges return twice in a page

\* LiveStreamManager (scripts/live.py)
VARIABLES
    buffer,                 \* self.buffer: the candles received and not yet flushed
    buffer_id,              \* id(self.buffer): which list object self.buffer is
    retry_counts,           \* self.retry_counts: buffer id -> failed flushes (0: no entry)
    dead_letter,            \* the files of data/dead_letter_queue, oldest first
    received,               \* number of candles handle_kline has been called with
    last_flush              \* what flush_buffer did, when the last step called it

\* BinanceWebSocket (src/data/stream) and start_streaming (scripts/live.py)
VARIABLES
    ws,                     \* self.ws: "none", or the state of the transport it refers to
    connected,              \* self.connected
    reconnect_delay,        \* self._reconnect_delay, in seconds
    subscriptions,          \* self.subscriptions: a list of channel names
    callbacks,              \* self.callbacks: the event types with a registered callback
    sent,                   \* channels of the SUBSCRIBE messages sent on the transport of ws
    loop,                   \* position of receive_loop, "off" while it is not running
    connects,               \* number of successful websockets.connect calls
    subscribes,             \* number of subscribe calls made by the caller
    main,                   \* position of start_streaming and its configuration
    last_msg                \* the frame last handled and whether a callback was invoked

\* threads sharing one DuckDBManager
VARIABLES
    lock,                   \* self._lock: the owning thread ("none": free) and its depth
    tpc,                    \* thread -> its position in insert_ohlcv
    targ,                   \* thread -> the arguments of its call
    txn,                    \* the open transaction of self.conn: its owner and the
                            \* tables as they were at BEGIN TRANSACTION
    commit_log,             \* the arguments of the committed calls, in commit order
    inserts                 \* number of insert_ohlcv calls made by the threads

\* ParquetManager (src/data/warehouse/parquet_manager.py), one dataset
VARIABLES
    lake,                   \* partition -> file name -> the file of that name
    wp,                     \* the running write_partition: its position and the groups left
    last_read,              \* what read_partition returned, when the last step called it
    last_op                 \* the ParquetManager step the last step was

\* DuckDBManager.detect_gaps
VARIABLES
    series,                 \* timestamps, in seconds, of the rows of ohlcv_raw of one key
    gaps                    \* what detect_gaps returned, when the last step called it

store_vars == <<ohlcv_raw, data_quality_metadata>>
archive_vars == <<lake, wp, last_read, last_op>>
gap_vars == <<series, gaps>>
late_vars == <<archive_vars, gap_vars>>
thread_vars == <<lock, tpc, targ, txn, commit_log, inserts>>
stream_vars == <<ws, connected, reconnect_delay, subscriptions, callbacks, sent,
                 loop, connects, subscribes, main>>
live_vars == <<buffer, buffer_id, retry_counts, dead_letter, received, last_flush>>
ext_vars == <<live_vars, stream_vars, last_msg, thread_vars, late_vars>>
api_vars == <<df, replace_duplicates, pc, result, repeated>>
backfill_vars == <<market, echo, checkpoint, bf, last_run, range_start, runs, outage, fr>>
vars == <<store_vars, api_vars, backfill_vars, ext_vars>>

\* ---------------------------------------------------------- table helpers
Rows(table) == BagToSet(table)
RowsOf(table, e) == {r \in Rows(table) : r.exchange = e}
Keys(table) == {Key(r) : r \in Rows(table)}
CountStar(table) == BagCardinality(table)

\* a replace that forgets to remove the row it replaces
DeleteNothing(table, k) == table

\* the row INSERT OR REPLACE removes on a primary-key conflict
DeleteKey(table, k) ==
    [r \in {x \in DOMAIN table : Key(x) # k} |-> table[r]]

SeqKeys(s) == {Key(s[i]) : i \in 1..Len(s)}
SeqRows(s) == {s[i] : i \in 1..Len(s)}

\* df.drop_duplicates(subset=key, keep="last"): the variant keeping the last row
RECURSIVE drop_duplicates_last(_)
drop_duplicates_last(s) ==
    IF s = <<>> THEN <<>>
    ELSE LET first == s[1]
             rest  == drop_duplicates_last(Tail(s))
         IN IF \E j \in 2..Len(s) : Key(s[j]) = Key(first)
            THEN rest ELSE <<first>> \o rest

\* df.drop_duplicates(subset=[exchange, symbol, timeframe, timestamp], keep="first")
RECURSIVE drop_duplicates(_)
drop_duplicates(s) ==
    IF s = <<>> THEN <<>>
    ELSE LET init == drop_duplicates(SubSeq(s, 1, Len(s) - 1))
             last == s[Len(s)]
         IN IF \E j \in 1..(Len(s) - 1) : Key(s[j]) = Key(last)
            THEN init ELSE Append(init, last)

\* plain INSERT INTO: appends every row, no conflict handling
RECURSIVE InsertAppend(_, _)
InsertAppend(table, s) ==
    IF s = <<>> THEN table
    ELSE InsertAppend(table (+) SetToBag({Head(s)}), Tail(s))

\* INSERT OR REPLACE INTO ohlcv_raw SELECT * FROM df_insert
RECURSIVE InsertOrReplace(_, _)
InsertOrReplace(table, s) ==
    IF s = <<>> THEN table
    ELSE InsertOrReplace(DeleteKey(table, Key(Head(s))) (+) SetToBag({Head(s)}),
                         Tail(s))

\* INSERT OR REPLACE mistaken for INSERT OR IGNORE
RECURSIVE InsertOrIgnoreAsReplace(_, _)
InsertOrIgnoreAsReplace(table, s) ==
    IF s = <<>> THEN table
    ELSE InsertOrIgnoreAsReplace(
             DeleteKey(table, Key(Head(s))) (+) SetToBag({Head(s)}), Tail(s))

\* INSERT OR IGNORE INTO ohlcv_raw SELECT * FROM df_insert
RECURSIVE InsertOrIgnore(_, _)
InsertOrIgnore(table, s) ==
    IF s = <<>> THEN table
    ELSE InsertOrIgnore(
             IF Key(Head(s)) \in Keys(table) THEN table
             ELSE table (+) SetToBag({Head(s)}),
             Tail(s))

SetMin(S) == CHOOSE x \in S : \A y \in S : x <= y
SetMax(S) == CHOOSE x \in S : \A y \in S : x >= y

\* first/last timestamp and count of a set of rows
Stats(rs) ==
    IF rs = {} THEN NoMeta
    ELSE [first_timestamp |-> SetMin({r.timestamp : r \in rs}),
          last_timestamp  |-> SetMax({r.timestamp : r \in rs}),
          total_records   |-> Cardinality(rs)]

\* DuckDBManager._update_metadata: per (exchange, symbol, timeframe) group of
\* the inserted DataFrame, INSERT OR REPLACE the group's min, max and length
update_metadata(meta, dfi) ==
    [e \in Exchanges |->
        LET group_df == {r \in SeqRows(dfi) : r.exchange = e}
        IN IF group_df = {} THEN meta[e] ELSE Stats(group_df)]

\* validate_data_integrity: the two counting queries
invalid_ohlc_count(table, e) ==
    BagCardinality([r \in {x \in DOMAIN table : x.exchange = e /\ ~ValidRow(x)}
                     |-> table[r]])
duplicate_count(table, e) ==
    LET sub == [r \in {x \in DOMAIN table : x.exchange = e} |-> table[r]]
    IN BagCardinality(sub) - Cardinality({Key(r) : r \in DOMAIN sub})

\* ------------------------------------------------------------ insert_ohlcv
\* The transaction of insert_ohlcv ends in one of these ways:
\*   "ok"        every statement succeeded, COMMIT
\*   "meta_err"  a statement of _update_metadata raised; _update_metadata
\*               catches and logs it, insert_ohlcv goes on to COMMIT
\*   "write_err" the INSERT raised: ROLLBACK, re-raise
\*   "commit_err" COMMIT raised: ROLLBACK, re-raise
Outcomes == {"ok", "meta_err", "write_err", "commit_err"}
Raised(o) == o \in {"write_err", "commit_err"}
\* the two ways the INSERT statement ends that matter to the callers of a
\* flush or of a thread's insert: done, or raised
WriteOutcomes == {"ok", "write_err"}

df_insert(d) == drop_duplicates(d)

WriteRows(table, d, replace) ==
    IF replace THEN InsertOrReplace(table, df_insert(d))
    ELSE InsertOrIgnore(table, df_insert(d))

\* tables after insert_ohlcv(d, replace) ending with outcome o
InsertTable(table, d, replace, o) ==
    IF d = <<>> \/ Raised(o) THEN table ELSE WriteRows(table, d, replace)
InsertMeta(meta, d, o) ==
    IF d = <<>> \/ Raised(o) \/ o = "meta_err" THEN meta
    ELSE update_metadata(meta, df_insert(d))

\* what the caller sees: "raised", or the returned row count
InsertResult(d, o) ==
    IF d = <<>> THEN [raised |-> FALSE, rows |-> 0, outcome |-> "ok"]
    ELSE IF Raised(o) THEN [raised |-> TRUE, rows |-> 0, outcome |-> o]
    ELSE [raised |-> FALSE, rows |-> Len(df_insert(d)), outcome |-> o]

\* ----------------------------------------------- callers of the store API
\* DataFrames handed to insert_ohlcv: rows of one series with a valid or an
\* invalid candle each, listed in timestamp order (rows of different keys do
\* not interact in insert_ohlcv), rows of one timestamp in either order
ApiCandles == {CandleA, CandleX}
ApiRows == {Row("binance", t, c) : t \in 0..MaxTs, c \in ApiCandles}
RECURSIVE SeqsUpTo(_, _)
SeqsUpTo(S, n) ==
    IF n = 0 THEN {<<>>}
    ELSE LET shorter == SeqsUpTo(S, n - 1)
         IN shorter \cup {Append(s, x) : s \in {q \in shorter : Len(q) = n - 1}, x \in S}
Batches ==
    {s \in SeqsUpTo(ApiRows, MaxBatch) :
        \A i \in 1..(Len(s) - 1) : s[i].timestamp <= s[i + 1].timestamp}

NoResult == [raised |-> FALSE, rows |-> 0, outcome |-> "none"]
NoCheckpoint == [total_records |-> 0]
NoRun == [outcome |-> "none"]
BfIdle == [pc |-> "idle"]
NoFetch == [call |-> "none"]

\* LiveStreamManager.__init__
BufferIds == {0, 1}
NoFlush == [outcome |-> "none"]
InitLive ==
    /\ buffer = <<>>
    /\ buffer_id = 0
    /\ retry_counts = [i \in BufferIds |-> 0]
    /\ dead_letter = <<>>
    /\ received = 0
    /\ last_flush = NoFlush

\* BinanceWebSocket.__init__; start_streaming has not been called
NoMsg == [kind |-> "none", shape_ok |-> FALSE, x |-> FALSE, called |-> FALSE]
MainIdle == [pc |-> "idle"]
InitStream ==
    /\ ws = "none"
    /\ connected = FALSE
    /\ reconnect_delay = 1
    /\ subscriptions = <<>>
    /\ callbacks = {}
    /\ sent = <<>>
    /\ loop = "off"
    /\ connects = 0
    /\ subscribes = 0
    /\ main = MainIdle
    /\ last_msg = NoMsg

\* DuckDBManager.__init__, seen by the threads that share the instance
Threads == {"t1", "t2"}
NoLock == [owner |-> "none", depth |-> 0]
NoTxn == [owner |-> "none"]
NoArgs == [df |-> <<>>, replace_duplicates |-> TRUE]
InitThreads ==
    /\ lock = NoLock
    /\ tpc = [t \in Threads |-> "idle"]
    /\ targ = [t \in Threads |-> NoArgs]
    /\ txn = NoTxn
    /\ commit_log = <<>>
    /\ inserts = 0

\* the (year, month) partitions of the dataset and the files of a partition
\* directory: the data file, the temporary file of write_partition, and a
\* part file written by another tool
Partitions == {1, 2}
data_file_path == "data.parquet"
tmp_file_path_in_place == "data.parquet"
tmp_file_path == ".data.parquet.tmp"
part_file_path == "part-0.parquet"
FileNames == {data_file_path, tmp_file_path, part_file_path}

\* a path that does not exist, a file whose write did not finish (not a
\* readable Parquet file), and a finished file with its rows
NoFile == [state |-> "absent", rows |-> <<>>]
PartialFile == [state |-> "partial", rows |-> <<>>]
CompleteFile(rows) == [state |-> "complete", rows |-> rows]

WpIdle == [pc |-> "idle", groups |-> <<>>]
NoRead == [read |-> "none", rows |-> <<>>]

InitArchive ==
    /\ lake = [p \in Partitions |-> [f \in FileNames |-> NoFile]]
    /\ wp = WpIdle
    /\ last_read = NoRead
    /\ last_op = "none"

NoGaps == [called |-> FALSE]

InitGaps ==
    /\ series = {}
    /\ gaps = NoGaps

InitStore ==
    /\ ohlcv_raw = EmptyBag
    /\ data_quality_metadata = [e \in Exchanges |-> NoMeta]
    /\ df = <<>>
    /\ replace_duplicates = TRUE
    /\ pc = "idle"
    /\ result = NoResult
    /\ repeated = FALSE
    /\ checkpoint = [e \in Exchanges |-> NoCheckpoint]
    /\ bf = BfIdle
    /\ last_run = NoRun
    /\ range_start = [e \in Exchanges |-> [start_date |-> 0, skipped |-> FALSE]]
    /\ runs = 0
    /\ outage = FALSE
    /\ fr = NoFetch
    /\ InitLive
    /\ InitStream
    /\ InitThreads
    /\ InitArchive
    /\ InitGaps

Init ==
    /\ InitStore
    /\ market = [t \in 0..(EndTs - 1) |-> CandleA]
    /\ echo = {}

\* a caller enters insert_ohlcv(d, replace)
Call(d, replace) ==
    /\ pc = "idle"
    /\ pc' = "called"
    /\ df' = d
    /\ replace_duplicates' = replace
    /\ repeated' = (/\ d = df /\ replace /\ replace_duplicates
                    /\ result.outcome \in {"ok", "meta_err"})
    /\ UNCHANGED <<ohlcv_raw, data_quality_metadata, result, backfill_vars, ext_vars>>

\* insert_ohlcv runs to its return or raise
insert_ohlcv(o) ==
    /\ pc = "called"
    /\ pc' = "idle"
    /\ ohlcv_raw' = InsertTable(ohlcv_raw, df, replace_duplicates, o)
    /\ data_quality_metadata' = InsertMeta(data_quality_metadata, df, o)
    /\ result' = InsertResult(df, o)
    /\ UNCHANGED <<df, replace_duplicates, repeated, backfill_vars, ext_vars>>

Next ==
    \/ \E d \in Batches, replace \in BOOLEAN : Call(d, replace)
    \/ \E o \in Outcomes : insert_ohlcv(o)

Spec == Init /\ [][Next]_vars

\* ============================================================== backfill
Min(a, b) == IF a < b THEN a ELSE b
Max(a, b) == IF a > b THEN a ELSE b

\* the exchange's candle endpoint (ccxt client.fetch_ohlcv): up to limit
\* candles from since on, oldest first; nothing later than "now" exists
RECURSIVE WithEchoes(_)
WithEchoes(s) ==
    IF s = <<>> THEN <<>>
    ELSE (IF Head(s).timestamp \in echo THEN <<Head(s), Head(s)>> ELSE <<Head(s)>>)
             \o WithEchoes(Tail(s))

ExchangeCandles(e, since, limit) ==
    LET n == Max(0, Min(limit, EndTs - since))
    IN WithEchoes([i \in 1..n |-> Row(e, since + i - 1, market[since + i - 1])])

\* TIMEFRAME_MAP of the two connectors
BinanceTimeframes ==
    {"1m", "3m", "5m", "15m", "30m", "1h", "2h", "4h", "6h", "12h", "1d", "3d", "1w"}
CoinbaseTimeframes == {"1m", "5m", "15m", "1h", "6h", "1d"}

\* timeframe in self.TIMEFRAME_MAP
Supported(e, timeframe) ==
    timeframe \in (IF e = "binance" THEN BinanceTimeframes ELSE CoinbaseTimeframes)

\* BinanceConnector.fetch_ohlcv / CoinbaseConnector.fetch_ohlcv, when the
\* request succeeds: the limit is clamped to the exchange's page maximum
fetch_ohlcv(e, since, limit) ==
    ExchangeCandles(e, since,
        Min(limit, IF e = "binance" THEN BinanceMaxLimit ELSE CoinbaseMaxLimit))

\* result.drop_duplicates(subset=["timestamp"], keep="first")
RECURSIVE drop_duplicates_timestamp(_)
drop_duplicates_timestamp(s) ==
    IF s = <<>> THEN <<>>
    ELSE LET init == drop_duplicates_timestamp(SubSeq(s, 1, Len(s) - 1))
             last == s[Len(s)]
         IN IF \E j \in 1..(Len(s) - 1) : s[j].timestamp = last.timestamp
            THEN init ELSE Append(init, last)

\* result.sort_values("timestamp")
RECURSIVE sort_values(_)
sort_values(s) ==
    IF s = <<>> THEN <<>>
    ELSE LET m  == SetMin({s[i].timestamp : i \in 1..Len(s)})
             i0 == SetMin({i \in 1..Len(s) : s[i].timestamp = m})
         IN <<s[i0]>> \o sort_values(SubSeq(s, 1, i0 - 1) \o SubSeq(s, i0 + 1, Len(s)))

\* the tail of fetch_ohlcv_range: empty if nothing was fetched, else the
\* concatenated pages, deduplicated and sorted
range_result(all_data) ==
    IF all_data = <<>> THEN <<>>
    ELSE sort_values(drop_duplicates_timestamp(all_data))

\* ExchangeConnector.validate_dataframe: is_valid
validate_dataframe(s) == s # <<>> /\ \A i \in 1..Len(s) : ValidRow(s[i])

\* backfill_data, lines 143-156: the rows that go on to the insert
clean_dataframe(s) ==
    IF validate_dataframe(s) THEN s ELSE SelectSeq(s, ValidRow)

\* BackfillCheckpoint.save / delete
checkpoint_save(cp, e, last_timestamp, total_records) ==
    [cp EXCEPT ![e] = [last_timestamp |-> last_timestamp,
                       total_records |-> total_records]]
checkpoint_delete(cp, e) == [cp EXCEPT ![e] = NoCheckpoint]

MaxTimestamp(s) == SetMax({s[i].timestamp : i \in 1..Len(s)})

LoopPc(cur) == IF cur < EndTs THEN "fetching" ELSE "fetched"

\* backfill_data up to the first page fetch: connector choice, date range,
\* checkpoint load
backfill_data_start(e, days, resume, export_parquet) ==
    /\ bf.pc = "idle" /\ pc = "idle" /\ runs < MaxRuns
    /\ LET requested == EndTs - days
           cp        == checkpoint[e]
           resumed   == resume /\ cp # NoCheckpoint
           start     == IF resumed THEN cp.last_timestamp ELSE requested
       IN /\ bf' = [pc |-> LoopPc(start), exchange |-> e, timeframe |-> "1h",
                    resume |-> resume,
                    export_parquet |-> export_parquet, start_date |-> start,
                    resumed |-> resumed,
                    current_timestamp |-> start, all_data |-> <<>>,
                    retry_count |-> 0, failed_batches |-> <<>>,
                    attempts |-> 0, slept |-> 0]
          /\ range_start' =
                IF resumed THEN range_start
                ELSE [range_start EXCEPT ![e] = [start_date |-> start, skipped |-> FALSE]]
    /\ runs' = runs + 1
    /\ UNCHANGED <<store_vars, api_vars, market, echo, checkpoint, last_run, outage, fr, ext_vars>>

\* the except branch of the page loop of fetch_ohlcv_range.  Binance sleeps
\* and tries the same page again; Coinbase counts the retry and, at
\* max_retries, skips one batch-width
\* attempts counts the requests that failed for the page at
\* current_timestamp, slept is the backoff slept after the last failure
RECURSIVE Pow2(_)
Pow2(n) == IF n = 0 THEN 1 ELSE 2 * Pow2(n - 1)

PageError(b) ==
    IF b.exchange = "binance"
    THEN [b EXCEPT !.attempts = Min(@ + 1, MaxAttempts), !.slept = 2]
    ELSE LET rc == b.retry_count + 1
             fb == Append(b.failed_batches,
                          [timestamp |-> b.current_timestamp, retry_count |-> rc])
         IN IF rc >= max_retries
            THEN [b EXCEPT !.failed_batches = fb,
                           !.current_timestamp = @ + BatchSize,
                           !.retry_count = 0,
                           !.attempts = 0, !.slept = 0,
                           !.pc = LoopPc(b.current_timestamp + BatchSize)]
            ELSE [b EXCEPT !.failed_batches = fb, !.retry_count = rc,
                           !.attempts = @ + 1, !.slept = Pow2(rc)]

\* one iteration of the page loop in which fetch_ohlcv returns
PageOk(b) ==
    LET page == fetch_ohlcv(b.exchange, b.current_timestamp, BatchSize)
        kept == IF b.exchange = "coinbase"
                THEN SelectSeq(page, LAMBDA r : r.timestamp <= EndTs)
                ELSE page
    IN IF page = <<>> THEN [b EXCEPT !.pc = "fetched"]
       ELSE IF kept = <<>> THEN PageError(b)
       ELSE [b EXCEPT !.all_data = @ \o kept,
                      !.current_timestamp = kept[Len(kept)].timestamp + 1,
                      !.retry_count = 0,
                      !.attempts = 0, !.slept = 0,
                      !.pc = LoopPc(kept[Len(kept)].timestamp + 1)]

fetch_page ==
    /\ bf.pc = "fetching"
    /\ ~outage
    /\ Supported(bf.exchange, bf.timeframe)
    /\ bf' = PageOk(bf)
    /\ UNCHANGED <<store_vars, api_vars, market, echo, checkpoint, last_run, range_start, runs, outage, fr, ext_vars>>

fetch_page_error ==
    /\ bf.pc = "fetching"
    /\ bf' = PageError(bf)
    /\ range_start' =
          IF bf'.current_timestamp # bf.current_timestamp
          THEN [range_start EXCEPT ![bf.exchange].skipped = TRUE]
          ELSE range_start
    /\ UNCHANGED <<store_vars, api_vars, market, echo, checkpoint, last_run, runs, outage, fr, ext_vars>>

RunRecord(b, outcome) ==
    [outcome |-> outcome, exchange |-> b.exchange, resumed |-> b.resumed,
     skipped |-> \E i \in 1..Len(b.failed_batches) :
                    b.failed_batches[i].retry_count >= max_retries]

\* backfill_data from the return of fetch_ohlcv_range to its own return:
\* o is how the insert ends, parquet_ok whether write_partition succeeds
backfill_data_finish(o, parquet_ok) ==
    /\ bf.pc = "fetched"
    /\ LET e       == bf.exchange
           fetched == range_result(bf.all_data)
           clean   == clean_dataframe(fetched)
           saved   == checkpoint_save(checkpoint, e, MaxTimestamp(clean), Len(clean))
       IN IF fetched = <<>> \/ clean = <<>>
          THEN /\ last_run' = RunRecord(bf, IF fetched = <<>> THEN "no_data"
                                            ELSE "no_valid_data")
               /\ UNCHANGED <<store_vars, api_vars, checkpoint>>
          ELSE /\ ohlcv_raw' = InsertTable(ohlcv_raw, clean, TRUE, o)
               /\ data_quality_metadata' = InsertMeta(data_quality_metadata, clean, o)
               /\ UNCHANGED api_vars
               /\ IF Raised(o)
                  THEN /\ checkpoint' = saved
                       /\ last_run' = RunRecord(bf, "insert_failed")
                  ELSE IF bf.export_parquet /\ ~parquet_ok
                  THEN /\ checkpoint' = saved
                       /\ last_run' = RunRecord(bf, "export_failed")
                  ELSE /\ checkpoint' = checkpoint_delete(saved, e)
                       /\ last_run' = RunRecord(bf, "success")
    /\ bf' = BfIdle
    /\ UNCHANGED <<market, echo, range_start, runs, outage, fr, ext_vars>>

\* the candle histories tried: invalid candles at none, one, the last two or
\* all of the timestamps
BadTimestamps == {{}, {EndTs - 2}, {EndTs - 2, EndTs - 1}, 0..(EndTs - 1)}
Markets ==
    {[t \in 0..(EndTs - 1) |-> IF t \in bad THEN CandleX ELSE CandleA] : bad \in BadTimestamps}
Days == 1..EndTs

InitBackfill ==
    /\ InitStore
    /\ market \in Markets
    /\ echo = {}

NextBackfill ==
    \/ \E e \in Exchanges, days \in Days, resume \in BOOLEAN, export_parquet \in BOOLEAN :
          backfill_data_start(e, days, resume, export_parquet)
    \/ fetch_page
    \/ fetch_page_error
    \/ \E o \in Outcomes, parquet_ok \in BOOLEAN : backfill_data_finish(o, parquet_ok)

SpecBackfill == InitBackfill /\ [][NextBackfill]_vars

\* ------------------------------- backfill of pages with repeated rows
\* the exchange repeats no row, the newest one, or every one
Echoes == {{}, {EndTs - 1}, 0..(EndTs - 1)}

InitEcho ==
    /\ InitStore
    /\ market \in Markets
    /\ echo \in Echoes

SpecEcho == InitEcho /\ [][NextBackfill]_vars

\* --------------------------------------- direct callers of a connector
\* timeframes a caller asks for: supported by both connectors, by Binance
\* only, by neither
Timeframes == {"1h", "4h", "10m"}

\* one call of connector.fetch_ohlcv(symbol, timeframe, since, BatchSize);
\* fails: the request to the exchange raises
fetch_ohlcv_call(e, timeframe, since, fails) ==
    /\ bf.pc = "idle"
    /\ fr' = IF ~Supported(e, timeframe)
             THEN [call |-> "fetch_ohlcv", exchange |-> e, timeframe |-> timeframe,
                   raised |-> TRUE, requested |-> FALSE, rows |-> <<>>]
             ELSE IF fails \/ outage
             THEN [call |-> "fetch_ohlcv", exchange |-> e, timeframe |-> timeframe,
                   raised |-> TRUE, requested |-> TRUE, rows |-> <<>>]
             ELSE [call |-> "fetch_ohlcv", exchange |-> e, timeframe |-> timeframe,
                   raised |-> FALSE, requested |-> TRUE,
                   rows |-> fetch_ohlcv(e, since, BatchSize)]
    /\ UNCHANGED <<store_vars, api_vars, market, echo, checkpoint, bf, last_run, range_start, runs, outage, ext_vars>>

\* connector.fetch_ohlcv_range(symbol, timeframe, start_date, end_date) up
\* to its page loop
fetch_ohlcv_range_call(e, timeframe, start) ==
    /\ bf.pc = "idle"
    /\ bf' = [pc |-> LoopPc(start), exchange |-> e, timeframe |-> timeframe,
              resume |-> FALSE, export_parquet |-> FALSE, start_date |-> start,
              resumed |-> FALSE,
              current_timestamp |-> start, all_data |-> <<>>,
              retry_count |-> 0, failed_batches |-> <<>>,
                    attempts |-> 0, slept |-> 0]
    /\ fr' = NoFetch
    /\ UNCHANGED <<store_vars, api_vars, market, echo, checkpoint, last_run, range_start, runs, outage, ext_vars>>

\* fetch_ohlcv_range from the end of its page loop to its return
fetch_ohlcv_range_return ==
    /\ bf.pc = "fetched"
    /\ fr' = [call |-> "fetch_ohlcv_range", exchange |-> bf.exchange,
              timeframe |-> bf.timeframe, raised |-> FALSE,
              requested |-> Supported(bf.exchange, bf.timeframe),
              rows |-> range_result(bf.all_data)]
    /\ bf' = BfIdle
    /\ UNCHANGED <<store_vars, api_vars, market, echo, checkpoint, last_run, range_start, runs, outage, ext_vars>>

NextFetch ==
    \/ \E e \in Exchanges, timeframe \in Timeframes, since \in 0..(EndTs - 1), fails \in BOOLEAN :
          fetch_ohlcv_call(e, timeframe, since, fails)
    \/ \E e \in Exchanges, timeframe \in Timeframes, start \in 0..(EndTs - 1) :
          fetch_ohlcv_range_call(e, timeframe, start)
    \/ fetch_page
    \/ fetch_page_error
    \/ fetch_ohlcv_range_return

SpecFetch == InitBackfill /\ [][NextFetch]_vars

\* ============================================================ live stream
not_live_vars == <<api_vars, backfill_vars, stream_vars, thread_vars, late_vars>>

\* the candle dict _handle_kline hands to the kline callback
LiveCandle(t, c) ==
    [timestamp |-> t, open |-> c.open, high |-> c.high, low |-> c.low,
     close |-> c.close, volume |-> c.volume]
LiveCandles == {LiveCandle(t, c) : t \in 0..MaxTs, c \in ApiCandles}

\* df = pd.DataFrame(buffer_copy); df["exchange"] = "binance"
BufferFrame(copy) ==
    [i \in 1..Len(copy) |-> Row("binance", copy[i].timestamp, copy[i])]

\* self.buffer = []: a new list object, so a different id
NewBuffer(id) == CHOOSE i \in BufferIds : i # id

\* _save_to_dlq(data, reason): one more file, unless writing it raises,
\* which the method logs and swallows
save_to_dlq(dlq, data, reason, write_ok) ==
    IF write_ok THEN Append(dlq, [reason |-> reason, data |-> data]) ELSE dlq

\* a copy taken before the candle appended last was in the buffer
buffer_copy_before_append(s) ==
    IF Len(s.buffer) > 1 THEN SubSeq(s.buffer, 1, Len(s.buffer) - 1) ELSE s.buffer

\* buffer_copy = self.buffer.copy()
buffer_copy(s) == s.buffer

\* LiveStreamManager.flush_buffer on live state s: o is how insert_ohlcv
\* ends, dlq_ok whether the dead-letter files of this call can be written.
\* The only await of flush_buffer is the backoff sleep at the end of the
\* retry branch, after which it returns; insert_ohlcv is a blocking call.
\* From the copy to the clear the coroutine never yields to the event
\* loop, so the whole call is one step of the task that makes it.
flush_buffer(s, o, dlq_ok) ==
    IF s.buffer = <<>> THEN [s EXCEPT !.last_flush = [outcome |-> "empty"]]
    ELSE
    LET id      == s.buffer_id
        copy    == buffer_copy(s)
        frame   == BufferFrame(copy)
        clean   == clean_dataframe(frame)
        invalid == SelectSeq(frame, LAMBDA r : ~ValidRow(r))
        dlq1    == IF invalid # <<>>
                   THEN save_to_dlq(s.dead_letter, invalid, "validation_failed", dlq_ok)
                   ELSE s.dead_letter
        rc      == s.retry_counts[id] + 1
        done(outcome) == [outcome |-> outcome, copy |-> copy,
                          failures |-> IF outcome = "failed" THEN rc ELSE 0]
    IN IF clean = <<>>
       THEN [s EXCEPT !.dead_letter = dlq1, !.buffer = <<>>,
                      !.buffer_id = NewBuffer(id),
                      !.last_flush = done("no_valid_data")]
       ELSE IF ~Raised(o)
       THEN [s EXCEPT !.ohlcv_raw = InsertTable(@, clean, TRUE, o),
                      !.data_quality_metadata = InsertMeta(@, clean, o),
                      !.dead_letter = dlq1, !.buffer = <<>>,
                      !.buffer_id = NewBuffer(id),
                      !.retry_counts[id] = 0,
                      !.last_flush = done("flushed")]
       ELSE IF rc < max_retry_count
       THEN [s EXCEPT !.dead_letter = dlq1,
                      !.retry_counts[id] = rc,
                      !.last_flush = done("failed")]
       ELSE [s EXCEPT !.dead_letter =
                          save_to_dlq(dlq1, copy, "max_retries_exceeded", dlq_ok),
                      !.buffer = <<>>,
                      !.buffer_id = NewBuffer(id),
                      !.retry_counts[id] = 0,
                      !.last_flush = done("failed")]

LiveState ==
    [ohlcv_raw |-> ohlcv_raw, data_quality_metadata |-> data_quality_metadata,
     buffer |-> buffer, buffer_id |-> buffer_id, retry_counts |-> retry_counts,
     dead_letter |-> dead_letter, last_flush |-> last_flush]

SetLiveState(s) ==
    /\ ohlcv_raw' = s.ohlcv_raw
    /\ data_quality_metadata' = s.data_quality_metadata
    /\ buffer' = s.buffer
    /\ buffer_id' = s.buffer_id
    /\ retry_counts' = s.retry_counts
    /\ dead_letter' = s.dead_letter
    /\ last_flush' = s.last_flush

\* LiveStreamManager.handle_kline(candle) on live state s: append, and
\* flush a full buffer
handle_kline(s, candle, o, dlq_ok) ==
    LET s1 == [s EXCEPT !.buffer = Append(@, candle), !.last_flush = NoFlush]
    IN IF Len(s1.buffer) >= BufferSize THEN flush_buffer(s1, o, dlq_ok) ELSE s1

\* ------------------------------------------------------ inbound frames
NoCandle == [timestamp |-> -1]
\* the text frames the exchange may send: not JSON at all; JSON that is not
\* an object; an object of another or no event type; a kline event of the
\* wrong shape; a kline event for candle k with closed flag x
OtherFrame(kind) == [kind |-> kind, shape_ok |-> FALSE, x |-> FALSE, k |-> NoCandle]
KlineFrame(x, k) == [kind |-> "kline", shape_ok |-> TRUE, x |-> x, k |-> k]
Frames ==
    {OtherFrame(kind) : kind \in {"not_json", "not_object", "unknown", "kline"}}
        \cup {KlineFrame(x, k) : x \in BOOLEAN, k \in LiveCandles}

Malformed(frame) == frame.kind \in {"not_json", "not_object"} \/ (frame.kind = "kline" /\ ~frame.shape_ok)
InProgress(frame) == frame.kind = "kline" /\ frame.shape_ok /\ ~frame.x

\* validate_kline_message(data): the validated message, or a ValueError for
\* a kline event that has not the expected shape
validate_kline_message(frame) ==
    IF frame.shape_ok THEN [raised |-> FALSE, x |-> frame.x, k |-> frame.k]
    ELSE [raised |-> TRUE]

\* what a callback may do when it is called
CallbackEnds == {"returns", "ValueError", "Exception"}

NotCalled(caught) == [called |-> FALSE, candle |-> NoCandle, caught |-> caught]

\* a kline handler that does not look at the closed flag
handle_kline_message_any(frame, cbs, cb_ends) ==
    LET validated == validate_kline_message(frame)
    IN IF validated.raised THEN NotCalled("handler")
       ELSE IF "kline" \notin cbs THEN NotCalled("none")
       ELSE [called |-> TRUE, candle |-> validated.k, caught |-> "none"]

\* BinanceWebSocket._handle_kline(data) with the callbacks cbs registered
handle_kline_message(frame, cbs, cb_ends) ==
    LET validated == validate_kline_message(frame)
    IN IF validated.raised THEN NotCalled("handler")
       ELSE IF ~validated.x THEN NotCalled("none")
       ELSE IF "kline" \notin cbs THEN NotCalled("none")
       ELSE [called |-> TRUE, candle |-> validated.k,
             caught |-> CASE cb_ends = "returns" -> "none"
                          [] cb_ends = "ValueError" -> "handler"
                          [] OTHER -> "loop"]

\* a receive loop whose inner try does not catch what json.loads and
\* on_message raise
on_message_uncaught(frame, cbs, cb_ends) ==
    IF frame.kind \in {"not_json", "not_object"} THEN NotCalled("uncaught")
    ELSE IF frame.kind = "kline" THEN handle_kline_message(frame, cbs, cb_ends)
    ELSE NotCalled("none")

\* the body of the async for of receive_loop: json.loads and on_message
\* inside the try of lines 102-108; caught says which except clause, if
\* any, ended the handling of the frame
on_message(frame, cbs, cb_ends) ==
    IF frame.kind = "not_json" THEN NotCalled("loop_json")
    ELSE IF frame.kind = "not_object" THEN NotCalled("loop")
    ELSE IF frame.kind = "kline" THEN handle_kline_message(frame, cbs, cb_ends)
    ELSE NotCalled("none")

Handled(frame, res) == [kind |-> frame.kind, shape_ok |-> frame.shape_ok, x |-> frame.x,
                        called |-> res.called]

\* the receive loop hands one frame to on_message while handle_kline is the
\* registered kline callback
kline_message(frame, o, dlq_ok) ==
    /\ LET res == on_message(frame, {"kline"}, "returns")
       IN /\ last_msg' = Handled(frame, res)
          /\ IF res.called
             THEN /\ received < MaxKlines
                  /\ received' = received + 1
                  /\ SetLiveState(handle_kline(LiveState, res.candle, o, dlq_ok))
             ELSE /\ last_flush' = NoFlush
                  /\ UNCHANGED <<store_vars, buffer, buffer_id, retry_counts,
                                 dead_letter, received>>
    /\ UNCHANGED not_live_vars

\* one round of periodic_flush in start_streaming: the sleep has ended
periodic_flush(o, dlq_ok) ==
    /\ SetLiveState(flush_buffer(LiveState, o, dlq_ok))
    /\ last_msg' = NoMsg
    /\ UNCHANGED <<received, not_live_vars>>

KlineFrames == {f \in Frames : f.kind = "kline"}

NextLive ==
    \/ \E frame \in KlineFrames, o \in WriteOutcomes, dlq_ok \in BOOLEAN :
          kline_message(frame, o, dlq_ok)
    \/ \E o \in WriteOutcomes, dlq_ok \in BOOLEAN : periodic_flush(o, dlq_ok)

SpecLive == Init /\ [][NextLive]_vars

\* ========================================================= stream client
not_stream_vars == <<store_vars, api_vars, backfill_vars, live_vars, thread_vars, late_vars>>

\* the kline channels of configs/streaming.yaml
StreamChannels == {"btcusdt@kline_1m", "ethusdt@kline_1m"}
Closed == {"closed_ok", "closed_error"}

ClientState ==
    [ws |-> ws, connected |-> connected, reconnect_delay |-> reconnect_delay,
     subscriptions |-> subscriptions, sent |-> sent, connects |-> connects,
     raised |-> FALSE]

SetClientState(c) ==
    /\ ws' = c.ws
    /\ connected' = c.connected
    /\ reconnect_delay' = c.reconnect_delay
    /\ subscriptions' = c.subscriptions
    /\ sent' = c.sent
    /\ connects' = c.connects

\* WebSocketManager.send followed by the rest of BinanceWebSocket.subscribe:
\* send raises unless the client is marked connected and the transport
\* takes the message
subscribe(c, channels, send_ok) ==
    IF c.ws = "none" \/ ~c.connected \/ c.ws # "open" \/ ~send_ok
    THEN [c EXCEPT !.raised = TRUE]
    ELSE [c EXCEPT !.sent = @ \o channels,
                   !.subscriptions = @ \o channels]

\* a reconnect that does not subscribe again
on_connect_silent(c, send_ok) == c

\* BinanceWebSocket.on_connect
on_connect(c, send_ok) ==
    IF c.subscriptions # <<>> THEN subscribe(c, c.subscriptions, send_ok) ELSE c

\* WebSocketManager.connect: handshake_ok is whether websockets.connect
\* returns a transport
connect(c, handshake_ok, send_ok) ==
    IF ~handshake_ok THEN [c EXCEPT !.connected = FALSE, !.raised = TRUE]
    ELSE LET c1 == [c EXCEPT !.ws = "open", !.sent = <<>>, !.connected = TRUE,
                             !.reconnect_delay = 1, !.connects = @ + 1]
             c2 == on_connect(c1, send_ok)
         IN IF c2.raised THEN [c2 EXCEPT !.connected = FALSE] ELSE c2

\* one round of the loop of reconnect_with_backoff; the except branch
\* doubles the delay connect left behind, which is 1 when the handshake
\* succeeded and on_connect raised
reconnect_with_backoff(c, handshake_ok, send_ok) ==
    LET c1 == connect(c, handshake_ok, send_ok)
    IN IF c1.raised
       THEN [c1 EXCEPT !.reconnect_delay = Min(c1.reconnect_delay * 2, max_reconnect_delay),
                       !.raised = FALSE]
       ELSE [c1 EXCEPT !.reconnect_delay = 1]

\* ------------------------------------------------ users of the client
\* ws.register_callback("kline", callback)
register_callback ==
    /\ main.pc = "idle" /\ loop = "off"
    /\ "kline" \notin callbacks
    /\ callbacks' = callbacks \cup {"kline"}
    /\ last_msg' = NoMsg
    /\ UNCHANGED <<ws, connected, reconnect_delay, subscriptions, sent, loop,
                   connects, subscribes, main, not_stream_vars>>

\* await ws.connect() by the user, before the receive loop is started
user_connect(handshake_ok, send_ok) ==
    /\ main.pc = "idle" /\ loop = "off"
    /\ ~connected
    /\ handshake_ok => connects < MaxConnects
    /\ SetClientState(connect(ClientState, handshake_ok, send_ok))
    /\ last_msg' = NoMsg
    /\ UNCHANGED <<callbacks, loop, subscribes, main, not_stream_vars>>

\* await ws.subscribe(channels) by the user
user_subscribe(channels, send_ok) ==
    /\ main.pc = "idle"
    /\ subscribes < MaxSubscribes
    /\ subscribes' = subscribes + 1
    /\ SetClientState(subscribe(ClientState, channels, send_ok))
    /\ last_msg' = NoMsg
    /\ UNCHANGED <<callbacks, loop, main, not_stream_vars>>

\* the user starts ws.receive_loop()
receive_loop_start ==
    /\ main.pc = "idle" /\ loop = "off"
    /\ loop' = IF connected THEN "iterating" ELSE "reconnecting"
    /\ last_msg' = NoMsg
    /\ UNCHANGED <<ws, connected, reconnect_delay, subscriptions, callbacks, sent,
                   connects, subscribes, main, not_stream_vars>>

\* ------------------------------------------------------- the transport
\* the peer or the network closes the transport: cleanly (close code 1000
\* or 1001), or with an error
transport_close(how) ==
    /\ ws = "open"
    /\ ws' = how
    /\ last_msg' = NoMsg
    /\ UNCHANGED <<connected, reconnect_delay, subscriptions, callbacks, sent, loop,
                   connects, subscribes, main, not_stream_vars>>

\* ---------------------------------------------------- the receive loop
\* a connection attempt of reconnect_with_backoff inside receive_loop
loop_reconnect(handshake_ok, send_ok) ==
    /\ loop = "reconnecting"
    /\ handshake_ok => connects < MaxConnects
    /\ LET c == reconnect_with_backoff(ClientState, handshake_ok, send_ok)
       IN /\ SetClientState(c)
          /\ loop' = IF c.connected THEN "iterating" ELSE "reconnecting"
    /\ last_msg' = NoMsg
    /\ UNCHANGED <<callbacks, subscribes, main, not_stream_vars>>

\* the async for receives a frame and handles it
loop_message(frame, cb_ends) ==
    /\ loop = "iterating" /\ ws = "open"
    /\ LET res == on_message(frame, callbacks, cb_ends)
       IN /\ last_msg' = Handled(frame, res)
          /\ IF res.caught = "uncaught"
             THEN connected' = FALSE /\ loop' = "reconnecting"
             ELSE UNCHANGED <<connected, loop>>
    /\ UNCHANGED <<ws, reconnect_delay, subscriptions, callbacks, sent,
                   connects, subscribes, main, not_stream_vars>>

\* the async for finds the transport closed.  After an error close it
\* raises ConnectionClosed (or, on a read error, another exception): the
\* handlers of lines 110-117 mark the client disconnected and the loop
\* reconnects.  After a clean close the iteration just ends, and the while
\* loop starts the next async for on the same transport
loop_closed ==
    /\ loop = "iterating" /\ ws \in Closed
    /\ IF ws = "closed_error"
       THEN connected' = FALSE /\ loop' = "reconnecting"
       ELSE connected' = connected
               /\ loop' = IF connected THEN "iterating" ELSE "reconnecting"
    /\ last_msg' = NoMsg
    /\ UNCHANGED <<ws, reconnect_delay, subscriptions, callbacks, sent,
                   connects, subscribes, main, not_stream_vars>>

\* ------------------------------------------------------- start_streaming
\* the streams section of the configuration: channel -> enabled
Configs == [StreamChannels -> BOOLEAN]
ChannelOrder == <<"btcusdt@kline_1m", "ethusdt@kline_1m">>

\* start_streaming up to its for loop: a new client, the kline callback
start_streaming(config) ==
    /\ main.pc = "idle"
    /\ ws = "none" /\ loop = "off" /\ subscribes = 0 /\ callbacks = {}
    /\ callbacks' = {"kline"}
    /\ main' = [pc |-> "subscribing", config |-> config, i |-> 1]
    /\ last_msg' = NoMsg
    /\ UNCHANGED <<ws, connected, reconnect_delay, subscriptions, sent, loop,
                   connects, subscribes, not_stream_vars>>

\* one round of the for loop over the configured streams
start_streaming_stream(send_ok) ==
    /\ main.pc = "subscribing" /\ main.i <= Len(ChannelOrder)
    /\ LET channel == ChannelOrder[main.i]
           c == IF main.config[channel]
                THEN subscribe(ClientState, <<channel>>, send_ok)
                ELSE ClientState
       IN /\ SetClientState(c)
          /\ main' = IF c.raised THEN [main EXCEPT !.pc = "raised"]
                     ELSE [main EXCEPT !.i = @ + 1]
    /\ last_msg' = NoMsg
    /\ UNCHANGED <<callbacks, loop, subscribes, not_stream_vars>>

\* asyncio.gather(ws.receive_loop(), periodic_flush())
start_streaming_gather ==
    /\ main.pc = "subscribing" /\ main.i > Len(ChannelOrder)
    /\ main' = [main EXCEPT !.pc = "running"]
    /\ loop' = IF connected THEN "iterating" ELSE "reconnecting"
    /\ last_msg' = NoMsg
    /\ UNCHANGED <<ws, connected, reconnect_delay, subscriptions, callbacks, sent,
                   connects, subscribes, not_stream_vars>>

ChannelLists ==
    {<<"btcusdt@kline_1m">>, <<"ethusdt@kline_1m">>,
     <<"btcusdt@kline_1m", "ethusdt@kline_1m">>}

NextStream ==
    \/ register_callback
    \/ \E handshake_ok \in BOOLEAN, send_ok \in BOOLEAN : user_connect(handshake_ok, send_ok)
    \/ \E channels \in ChannelLists, send_ok \in BOOLEAN : user_subscribe(channels, send_ok)
    \/ receive_loop_start
    \/ \E how \in Closed : transport_close(how)
    \/ \E handshake_ok \in BOOLEAN, send_ok \in BOOLEAN : loop_reconnect(handshake_ok, send_ok)
    \/ \E frame \in Frames, cb_ends \in CallbackEnds : loop_message(frame, cb_ends)
    \/ loop_closed
    \/ \E config \in Configs : start_streaming(config)
    \/ \E send_ok \in BOOLEAN : start_streaming_stream(send_ok)
    \/ start_streaming_gather

SpecStream == Init /\ [][NextStream]_vars

\* the event loop keeps running the tasks it has, and the exchange accepts
\* a connection attempt sooner or later
SpecStreamFair ==
    /\ SpecStream
    /\ WF_vars(\E send_ok \in BOOLEAN : start_streaming_stream(send_ok))
    /\ WF_vars(start_streaming_gather)
    /\ WF_vars(loop_closed)
    /\ WF_vars(loop_reconnect(TRUE, TRUE))

\* ================================================= concurrent inserts
not_thread_vars == <<api_vars, backfill_vars, live_vars, stream_vars, last_msg, late_vars>>

\* the batches the threads insert: two that differ in the row they hold
\* for one key, and one of two rows
ThreadBatches ==
    {<<Row("binance", 0, CandleA)>>,
     <<Row("binance", 0, CandleX)>>,
     <<Row("binance", 0, CandleA), Row("binance", 1, CandleA)>>}

\* threading.RLock.acquire by thread t
acquire(l, t) == [owner |-> t, depth |-> l.depth + 1]

\* a lock that never makes a thread wait
can_acquire_any(l, t) == TRUE

\* acquire returns when the lock is free or t owns it already
can_acquire(l, t) == l.owner \in {"none", t}

\* threading.RLock.release by its owner
release(l) == IF l.depth > 1 THEN [l EXCEPT !.depth = @ - 1] ELSE NoLock

\* thread t calls insert_ohlcv(d, replace) with a non-empty DataFrame
thread_call(t, d, replace) ==
    /\ tpc[t] = "idle"
    /\ inserts < MaxInserts
    /\ inserts' = inserts + 1
    /\ tpc' = [tpc EXCEPT ![t] = "called"]
    /\ targ' = [targ EXCEPT ![t] = [df |-> d, replace_duplicates |-> replace]]
    /\ UNCHANGED <<store_vars, lock, txn, commit_log, not_thread_vars>>

\* with self._lock: (line 157)
thread_lock(t) ==
    /\ tpc[t] = "called"
    /\ can_acquire(lock, t)
    /\ lock' = acquire(lock, t)
    /\ tpc' = [tpc EXCEPT ![t] = "locked"]
    /\ UNCHANGED <<store_vars, targ, txn, commit_log, inserts, not_thread_vars>>

\* conn = self.connect(): takes the lock once more and gives it back
thread_connect(t) ==
    /\ tpc[t] = "locked"
    /\ can_acquire(lock, t)
    /\ lock' = release(acquire(lock, t))
    /\ tpc' = [tpc EXCEPT ![t] = "prepared"]
    /\ UNCHANGED <<store_vars, targ, txn, commit_log, inserts, not_thread_vars>>

\* conn.execute("BEGIN TRANSACTION"): raises if the connection already has
\* a transaction open
thread_begin(t) ==
    /\ tpc[t] = "prepared"
    /\ IF txn = NoTxn
       THEN /\ txn' = [owner |-> t, ohlcv_raw |-> ohlcv_raw,
                       data_quality_metadata |-> data_quality_metadata]
            /\ tpc' = [tpc EXCEPT ![t] = "begun"]
       ELSE /\ txn' = txn
            /\ tpc' = [tpc EXCEPT ![t] = "failed"]
    /\ UNCHANGED <<store_vars, lock, targ, commit_log, inserts, not_thread_vars>>

\* the INSERT statement and _update_metadata
thread_write(t, o) ==
    /\ tpc[t] = "begun"
    /\ ohlcv_raw' = InsertTable(ohlcv_raw, targ[t].df, targ[t].replace_duplicates, o)
    /\ data_quality_metadata' = InsertMeta(data_quality_metadata, targ[t].df, o)
    /\ tpc' = [tpc EXCEPT ![t] = IF Raised(o) THEN "failed" ELSE "written"]
    /\ UNCHANGED <<lock, targ, txn, commit_log, inserts, not_thread_vars>>

\* conn.execute("COMMIT")
thread_commit(t, ok) ==
    /\ tpc[t] = "written"
    /\ IF ok
       THEN /\ txn' = NoTxn
            /\ commit_log' = Append(commit_log, targ[t])
            /\ tpc' = [tpc EXCEPT ![t] = "returning"]
       ELSE /\ tpc' = [tpc EXCEPT ![t] = "failed"]
            /\ UNCHANGED <<txn, commit_log>>
    /\ UNCHANGED <<store_vars, lock, targ, inserts, not_thread_vars>>

\* the except branch: conn.execute("ROLLBACK") undoes the open transaction
thread_rollback(t) ==
    /\ tpc[t] = "failed"
    /\ IF txn = NoTxn
       THEN UNCHANGED <<store_vars, txn>>
       ELSE /\ ohlcv_raw' = txn.ohlcv_raw
            /\ data_quality_metadata' = txn.data_quality_metadata
            /\ txn' = NoTxn
    /\ tpc' = [tpc EXCEPT ![t] = "returning"]
    /\ UNCHANGED <<lock, targ, commit_log, inserts, not_thread_vars>>

\* the with block is left: return or raise
thread_unlock(t) ==
    /\ tpc[t] = "returning"
    /\ lock' = release(lock)
    /\ tpc' = [tpc EXCEPT ![t] = "idle"]
    /\ targ' = [targ EXCEPT ![t] = NoArgs]
    /\ UNCHANGED <<store_vars, txn, commit_log, inserts, not_thread_vars>>

NextThreads ==
    \E t \in Threads :
        \/ \E d \in ThreadBatches, replace \in BOOLEAN : thread_call(t, d, replace)
        \/ thread_lock(t)
        \/ thread_connect(t)
        \/ thread_begin(t)
        \/ \E o \in WriteOutcomes : thread_write(t, o)
        \/ \E ok \in BOOLEAN : thread_commit(t, ok)
        \/ thread_rollback(t)
        \/ thread_unlock(t)

SpecThreads == Init /\ [][NextThreads]_vars

\* ------------------------------------------- range fetch under an outage
\* the exchange host goes down and stays down: every later request raises
outage_begins ==
    /\ ~outage
    /\ outage' = TRUE
    /\ UNCHANGED <<store_vars, api_vars, market, echo, checkpoint, bf, last_run, range_start, runs, fr, ext_vars>>

NextRange == NextBackfill \/ outage_begins

\* the page loop is a coroutine the event loop keeps running: its sleeps
\* end and the next iteration is made; how an iteration ends is up to the
\* exchange
SpecRange ==
    /\ InitBackfill
    /\ [][NextRange]_vars
    /\ WF_vars(fetch_page \/ fetch_page_error)

\* ===================================================== properties, Spec
TableAt(table, k) == [r \in {x \in DOMAIN table : Key(x) = k} |-> table[r]]
InsertReturns == pc = "called" /\ pc' = "idle" /\ df # <<>>
Committed(res) == ~res.raised /\ res.outcome \in {"ok", "meta_err"}
FirstWithKey(s, k) == s[SetMin({i \in 1..Len(s) : Key(s[i]) = k})]
LastWithKey(s, k) == s[SetMax({i \in 1..Len(s) : Key(s[i]) = k})]
\* keys that occur in the batch more than once, with different field values
ClashingKeys(s) ==
    {k \in SeqKeys(s) : Cardinality({r \in SeqRows(s) : Key(r) = k}) > 1}

\* C1: every candle held in the store satisfies the OHLC invariants
\* (high >= open, close, low; low <= open, close; volume >= 0)
C1_StoredRowsValid == \A r \in Rows(ohlcv_raw) : ValidRow(r)

\* C2: the store holds at most one candle per (exchange, symbol, timeframe,
\* timestamp) and validate_data_integrity reports duplicate_count = 0
C2_OneRowPerKey ==
    /\ \A k \in Keys(ohlcv_raw) : CountStar(TableAt(ohlcv_raw, k)) = 1
    /\ \A e \in Exchanges : duplicate_count(ohlcv_raw, e) = 0
C2_Witness ==
    /\ pc = "idle" /\ repeated /\ result.outcome = "ok"
    /\ Len(df) > Len(drop_duplicates(df))
    /\ Keys(ohlcv_raw) # SeqKeys(df)

\* C3: if any step of an insert fails (writing a row, updating the metadata,
\* committing), both tables are as before the call and the error reaches the
\* caller
C3_InsertAllOrNothing ==
    [][(InsertReturns /\ result'.outcome # "ok") =>
          /\ ohlcv_raw' = ohlcv_raw
          /\ data_quality_metadata' = data_quality_metadata
          /\ result'.raised]_vars

\* C4: on a key collision replace stores the newly inserted row, ignore keeps
\* the stored row; rows of keys the batch does not name are unchanged
C4_UpsertModes ==
    [][(InsertReturns /\ Committed(result')) =>
          /\ \A k \in SeqKeys(df) \cap Keys(ohlcv_raw) :
                IF replace_duplicates
                THEN /\ CountStar(TableAt(ohlcv_raw', k)) = 1
                     /\ Rows(TableAt(ohlcv_raw', k)) \subseteq SeqRows(df)
                ELSE TableAt(ohlcv_raw', k) = TableAt(ohlcv_raw, k)
          /\ \A k \in Keys(ohlcv_raw) \ SeqKeys(df) :
                TableAt(ohlcv_raw', k) = TableAt(ohlcv_raw, k)
          /\ Keys(ohlcv_raw') = Keys(ohlcv_raw) \cup SeqKeys(df)]_vars
C4_Witness ==
    /\ pc = "idle" /\ result.outcome = "ok" /\ ~replace_duplicates
    /\ Len(df) = 1
    /\ \E r \in Rows(ohlcv_raw) : Key(r) = Key(df[1]) /\ r # df[1]
    /\ Keys(ohlcv_raw) # SeqKeys(df)

\* C5 as stated: a batch with two rows of one key and different values leaves
\* exactly one row for the key, the policy's winner: replace the last of the
\* rows (last-write-wins), ignore the first write
C5_PolicyWinner ==
    [][(InsertReturns /\ Committed(result')) =>
          \A k \in ClashingKeys(df) :
             /\ CountStar(TableAt(ohlcv_raw', k)) = 1
             /\ Rows(TableAt(ohlcv_raw', k)) =
                   IF replace_duplicates THEN {LastWithKey(df, k)}
                   ELSE IF k \in Keys(ohlcv_raw) THEN Rows(TableAt(ohlcv_raw, k))
                   ELSE {FirstWithKey(df, k)}]_vars

\* C5 amended: exactly one row for the key is left; in replace mode it is the
\* FIRST of the batch's rows for the key, in ignore mode the row stored before
\* the call if there was one and else the first of the batch's rows
C5_FirstInBatchWins ==
    [][(InsertReturns /\ Committed(result')) =>
          \A k \in ClashingKeys(df) :
             /\ CountStar(TableAt(ohlcv_raw', k)) = 1
             /\ Rows(TableAt(ohlcv_raw', k)) =
                   IF replace_duplicates THEN {FirstWithKey(df, k)}
                   ELSE IF k \in Keys(ohlcv_raw) THEN Rows(TableAt(ohlcv_raw, k))
                   ELSE {FirstWithKey(df, k)}]_vars
C5_Witness ==
    /\ pc = "idle" /\ result.outcome = "ok" /\ replace_duplicates
    /\ Len(df) = 2 /\ Key(df[1]) = Key(df[2]) /\ df[1] # df[2]
    /\ df[1] \in Rows(ohlcv_raw) /\ df[2] \notin Rows(ohlcv_raw)

\* C6: inserting the same batch a second time in replace mode leaves the
\* store's rows (count and content per key) as the first insert left them
C6_ReplaceIdempotent ==
    [][(InsertReturns /\ repeated) => ohlcv_raw' = ohlcv_raw]_vars
C6_Witness ==
    /\ pc = "idle" /\ repeated /\ result.outcome = "ok" /\ Len(df) = 2
    /\ Keys(ohlcv_raw) # SeqKeys(df)
    /\ SeqRows(df) \subseteq Rows(ohlcv_raw)

\* C7: after a successful insert the metadata of every series the batch
\* touched is the minimum timestamp, maximum timestamp and row count of the
\* candles stored for that series
C7_MetadataMatchesStore ==
    (pc = "idle" /\ result.outcome = "ok" /\ df # <<>>) =>
        \A e \in {r.exchange : r \in SeqRows(df)} :
            data_quality_metadata[e] = Stats(RowsOf(ohlcv_raw, e))

\* ============================================== properties, SpecBackfill
Returned == bf.pc = "idle" /\ last_run.outcome # "none"
\* the valid candles the exchange serves for [start, end_date)
RangeCandles(e, start) ==
    {Row(e, t, market[t]) : t \in {u \in start..(EndTs - 1) : ValidRow(Row(e, u, market[u]))}}

\* C8: the last_timestamp of every existing checkpoint is the timestamp of a
\* candle that was persisted to the store for the checkpoint's series
C8_CheckpointPersisted ==
    \A e \in Exchanges :
        checkpoint[e] # NoCheckpoint =>
            \E r \in RowsOf(ohlcv_raw, e) : r.timestamp = checkpoint[e].last_timestamp

\* C9: when backfill_data has returned and the run was not a complete success
\* (a page was skipped, the insert or the archive write failed, or no data was
\* obtained), a checkpoint exists for the series; so the checkpoint is gone
\* only after the entire range was fetched and stored
C9_CheckpointKeptUnlessComplete ==
    (Returned /\ (last_run.outcome # "success" \/ last_run.skipped)) =>
        checkpoint[last_run.exchange] # NoCheckpoint

\* C10: a resumed run starts fetching at the checkpoint's last_timestamp, and
\* when it succeeds the store holds, for the range intended by the interrupted
\* run, what an uninterrupted backfill of that range stores
C10_ResumeEquivalent ==
    [][/\ (bf.pc = "idle" /\ bf'.pc # "idle" /\ bf'.resume
              /\ checkpoint[bf'.exchange] # NoCheckpoint) =>
            bf'.current_timestamp = checkpoint[bf'.exchange].last_timestamp
       /\ (bf.pc = "fetched" /\ bf'.pc = "idle" /\ bf.resumed
              /\ last_run'.outcome = "success"
              /\ ~range_start[bf.exchange].skipped) =>
            {r \in RowsOf(ohlcv_raw', bf.exchange) :
                 r.timestamp >= range_start[bf.exchange].start_date}
              = RangeCandles(bf.exchange, range_start[bf.exchange].start_date)]_vars

\* ================================================= properties, SpecEcho

\* C14: a backfill that fetched valid candles, duplicate-timestamp rows and
\* OHLC-invalid rows, and succeeds, leaves in the store, for the timestamps
\* fetched, exactly the valid candles, each once, and leaves a dead-letter
\* entry that covers the invalid rows it filtered out
C14_BackfillFiltersToDeadLetter ==
    [][(bf.pc = "fetched" /\ bf'.pc = "idle" /\ last_run'.outcome = "success") =>
          LET fetched == SeqRows(bf.all_data)
              valid   == {r \in fetched : ValidRow(r)}
              invalid == fetched \ valid
              stored  == {r \in RowsOf(ohlcv_raw', bf.exchange) :
                             \E f \in fetched : f.timestamp = r.timestamp}
          IN /\ stored = valid
             /\ \A r \in stored : ohlcv_raw'[r] = 1
             /\ invalid # {} =>
                   \E i \in 1..Len(dead_letter') :
                       invalid \subseteq SeqRows(dead_letter'[i].data)]_vars

\* ================================================ properties, SpecRange
\* C11: for both connectors a running fetch_ohlcv_range terminates, also
\* when the page fetches fail persistently: the page loop is always left
C11_RangeTerminates == (bf.pc = "fetching") ~> (bf.pc # "fetching")

\* C19: the kline callback is invoked only for a well-formed kline event
\* whose closed flag is set; the event of an in-progress candle invokes no
\* callback and changes neither the live buffer nor the store
C19_OnlyClosedKlines ==
    [][/\ last_msg'.called =>
             last_msg'.kind = "kline" /\ last_msg'.shape_ok /\ last_msg'.x
       /\ InProgress(last_msg') =>
             /\ ~last_msg'.called
             /\ UNCHANGED <<buffer, ohlcv_raw, dead_letter, received>>]_vars

\* the event of an in-progress candle has just been dropped while a closed
\* candle waits in the buffer
C19_Witness ==
    /\ InProgress(last_msg) /\ ~last_msg.called
    /\ buffer # <<>>

\* ================================================ properties, SpecFetch
UnsupportedCall(r) == r.call # "none" /\ ~Supported(r.exchange, r.timeframe)

\* C12: an unsupported timeframe fails before any request is made, is not
\* retried by the page loop of the range fetcher, and reaches the caller as
\* an error, never as a returned (empty or partial) result
C12_ConfigErrorFailsFast ==
    /\ UnsupportedCall(fr) => fr.raised /\ ~fr.requested
    /\ bf.pc # "idle" /\ ~Supported(bf.exchange, bf.timeframe)
          => bf.retry_count = 0 /\ bf.failed_batches = <<>>

\* ================================================= properties, SpecLive
FlushFailed ==
    /\ last_flush'.outcome = "failed"
    /\ <<buffer, retry_counts>>' # <<buffer, retry_counts>>

\* C13: a failed flush keeps the buffer while fewer than max_retry_count
\* failures are recorded for it; the failure that reaches the bound moves
\* the buffer contents to a new dead-letter entry and clears the buffer
C13_FlushRetryBound ==
    [][FlushFailed =>
          IF last_flush'.failures < max_retry_count
          THEN buffer' = last_flush'.copy
          ELSE /\ buffer' = <<>>
               /\ \E i \in (Len(dead_letter) + 1)..Len(dead_letter') :
                     dead_letter'[i].data = last_flush'.copy]_vars

\* =============================================== properties, SpecStream
Channels(s) == {s[i] : i \in 1..Len(s)}
ConnectSucceeds == connects' = connects + 1 /\ connected'

\* C15: on every successful connect a SUBSCRIBE is sent, on the new
\* transport, for every channel subscribed before
C15_ResubscribeOnConnect ==
    [][ConnectSucceeds => Channels(subscriptions) \subseteq Channels(sent')]_vars

\* the client is connected for the third time and has re-issued the one
\* channel its user subscribed to
C15_Witness ==
    /\ connects = 3 /\ connected /\ ws = "open"
    /\ subscribes = 1
    /\ Channels(subscriptions) = {"btcusdt@kline_1m"}
    /\ Channels(sent) = {"btcusdt@kline_1m"}

FrameHandled == last_msg'.kind # "none"

\* C18: handling an inbound frame, whatever it is and however its callback
\* ends, leaves the connection state and the receive loop where they were,
\* and a malformed frame invokes no callback
C18_FramesNeverStopLoop ==
    [][FrameHandled =>
          /\ connected' = connected /\ ws' = ws
          /\ loop' = "iterating"
          /\ Malformed(last_msg') => ~last_msg'.called]_vars

\* the loop has just dropped a kline event of the wrong shape while a
\* kline callback is registered
C18_Witness ==
    /\ last_msg.kind = "kline" /\ ~last_msg.shape_ok
    /\ "kline" \in callbacks
    /\ loop = "iterating" /\ connected /\ ws = "open"

\* =========================================== properties, SpecStreamFair
\* C16: while the receive loop runs, a closed transport, however it was
\* closed, leads to the client being marked disconnected and the loop
\* reconnecting
C16_ClosedLeadsToReconnect ==
    (loop # "off" /\ ws \in Closed) ~> (~connected /\ loop = "reconnecting")

Enabled(config) == {ch \in StreamChannels : config[ch]}

Established ==
    /\ main.pc = "running"
    /\ connected /\ ws = "open"
    /\ Channels(subscriptions) = Enabled(main.config)
    /\ loop # "off"

\* C17: once started, start_streaming reaches a state in which the client
\* is connected, a subscription was issued for exactly the enabled streams,
\* and the receive loop and the periodic flush run
C17_StreamingEstablished == (main.pc = "subscribing") ~> Established

\* ============================================== properties, SpecThreads
InTransaction(t) == tpc[t] \in {"begun", "written", "failed"}

\* the store after the committed calls, made one after the other
RECURSIVE Replay(_)
Replay(log) ==
    IF log = <<>> THEN EmptyBag
    ELSE InsertTable(Replay(SubSeq(log, 1, Len(log) - 1)),
                     log[Len(log)].df, log[Len(log)].replace_duplicates, "ok")

\* C20: at most one thread is between BEGIN TRANSACTION and COMMIT or
\* ROLLBACK, and whenever no transaction is open the store is what the
\* committed inserts give when they are made one by one in commit order
C20_InsertsMutuallyExclusive ==
    /\ \A t1 \in Threads, t2 \in Threads :
          InTransaction(t1) /\ InTransaction(t2) => t1 = t2
    /\ txn = NoTxn => ohlcv_raw = Replay(commit_log)

\* one thread has written inside its transaction while the other, which
\* called insert_ohlcv too, waits for the lock, after an earlier commit
C20_Witness ==
    /\ tpc["t1"] = "written" /\ tpc["t2"] = "called"
    /\ lock.owner = "t1"
    /\ commit_log # <<>>

\* ------------------------------------------------------- columnar archive
not_archive_vars == <<store_vars, api_vars, backfill_vars, live_vars, stream_vars,
                      last_msg, thread_vars, gap_vars>>

\* the rows of the archive's DataFrames: the dataset (exchange, symbol,
\* timeframe) is fixed, a row is its timestamp and its values; timestamp 0
\* comes in two versions
ArchiveRow(t, c) == [timestamp |-> t, close |-> c]
ArchiveRows == {ArchiveRow(0, 1), ArchiveRow(0, 2), ArchiveRow(1, 1), ArchiveRow(2, 1)}

\* the DataFrames handed to write_partition: empty, of one row, and of two
\* rows that are sorted, unsorted, two versions of one timestamp, the same
\* row twice, or of two months
ArchiveFrames ==
    {<<>>} \cup {<<r>> : r \in ArchiveRows}
    \cup {<<ArchiveRow(0, 1), ArchiveRow(1, 1)>>, <<ArchiveRow(1, 1), ArchiveRow(0, 1)>>,
          <<ArchiveRow(0, 1), ArchiveRow(0, 2)>>, <<ArchiveRow(0, 1), ArchiveRow(0, 1)>>,
          <<ArchiveRow(0, 1), ArchiveRow(2, 1)>>, <<ArchiveRow(2, 1), ArchiveRow(0, 2)>>}

\* df["timestamp"].dt.year, df["timestamp"].dt.month: timestamps 0 and 1 lie
\* in the first month, the later ones in the second
year_month(t) == IF t < 2 THEN 1 ELSE 2

\* df.groupby(["year", "month"]): the groups in key order, each with its rows
\* in the order of the frame, without the partition columns
group_df(d, p) == SelectSeq(d, LAMBDA r : year_month(r.timestamp) = p)
RECURSIVE groups_from(_, _)
groups_from(d, p) ==
    IF p \notin Partitions THEN <<>>
    ELSE (IF group_df(d, p) = <<>> THEN <<>>
          ELSE <<[partition |-> p, data_df |-> group_df(d, p)]>>)
         \o groups_from(d, p + 1)
groupby(d) == groups_from(d, 1)

SetFile(l, p, f, file) == [l EXCEPT ![p][f] = file]

\* write_partition up to the first group: an empty frame returns at once
write_partition_call(d) ==
    /\ wp.pc = "idle"
    /\ wp' = IF d = <<>> THEN WpIdle ELSE [pc |-> "group", groups |-> groupby(d)]
    /\ last_op' = "call"
    /\ last_read' = NoRead
    /\ UNCHANGED <<lake, not_archive_vars>>

\* pq.write_table opens the temporary file and starts writing
write_table_open ==
    /\ wp.pc = "group"
    /\ lake' = SetFile(lake, wp.groups[1].partition, tmp_file_path, PartialFile)
    /\ wp' = [wp EXCEPT !.pc = "open"]
    /\ last_op' = "write_table"
    /\ last_read' = NoRead
    /\ UNCHANGED not_archive_vars

\* pq.write_table finishes the temporary file
write_table_close ==
    /\ wp.pc = "open"
    /\ lake' = SetFile(lake, wp.groups[1].partition, tmp_file_path,
                       CompleteFile(wp.groups[1].data_df))
    /\ wp' = [wp EXCEPT !.pc = "written"]
    /\ last_op' = "write_table"
    /\ last_read' = NoRead
    /\ UNCHANGED not_archive_vars

\* tmp_file_path.rename(file_path), then the next group or the return
rename ==
    /\ wp.pc = "written"
    /\ LET p == wp.groups[1].partition
       IN lake' = SetFile(SetFile(lake, p, data_file_path, lake[p][tmp_file_path]),
                          p, tmp_file_path, NoFile)
    /\ wp' = IF Tail(wp.groups) = <<>> THEN WpIdle
             ELSE [pc |-> "group", groups |-> Tail(wp.groups)]
    /\ last_op' = "rename"
    /\ last_read' = NoRead
    /\ UNCHANGED not_archive_vars

\* an exception inside the try block (Table.from_pandas, pq.write_table or
\* rename raises): the temporary file is removed if it exists, the
\* exception leaves write_partition
write_error ==
    /\ wp.pc \in {"group", "open", "written"}
    /\ lake' = SetFile(lake, wp.groups[1].partition, tmp_file_path, NoFile)
    /\ wp' = WpIdle
    /\ last_op' = "write_error"
    /\ last_read' = NoRead
    /\ UNCHANGED not_archive_vars

\* the process is killed inside write_partition: no handler runs
write_interrupted ==
    /\ wp.pc # "idle"
    /\ wp' = WpIdle
    /\ last_op' = "interrupted"
    /\ last_read' = NoRead
    /\ UNCHANGED <<lake, not_archive_vars>>

\* the files list of read_partition: the data files that exist in the
\* chosen partition (year and month given) or in all of them (p = 0)
RECURSIVE read_files(_, _, _)
read_files(l, sel, p) ==
    IF p \notin Partitions THEN <<>>
    ELSE (IF (sel = 0 \/ sel = p) /\ l[p][data_file_path].state # "absent"
          THEN <<l[p][data_file_path]>> ELSE <<>>)
         \o read_files(l, sel, p + 1)

\* pd.concat of the files pd.read_parquet can read; a file it cannot read
\* is logged and left out
RECURSIVE concat_readable(_)
concat_readable(files) ==
    IF files = <<>> THEN <<>>
    ELSE (IF files[1].state = "complete" THEN files[1].rows ELSE <<>>)
         \o concat_readable(Tail(files))

read_partition(l, sel) == sort_values(concat_readable(read_files(l, sel, 1)))

read_partition_call(sel) ==
    /\ last_read' = [read |-> "done", sel |-> sel, rows |-> read_partition(lake, sel)]
    /\ last_op' = "read"
    /\ UNCHANGED <<lake, wp, not_archive_vars>>

\* combined.drop_duplicates(): of rows equal in every column the first stays
RECURSIVE drop_duplicates_rows(_)
drop_duplicates_rows(s) ==
    IF s = <<>> THEN <<>>
    ELSE LET init == drop_duplicates_rows(SubSeq(s, 1, Len(s) - 1))
             last == s[Len(s)]
         IN IF \E j \in 1..(Len(s) - 1) : s[j] = last
            THEN init ELSE Append(init, last)

\* month_dir.glob("*.parquet"): the temporary file does not match
parquet_files(dir) == {f \in {data_file_path, part_file_path} : dir[f].state # "absent"}

\* one month directory of compact_partitions; the glob lists the data file
\* first or last
compact_dir(dir, data_first) ==
    IF Cardinality(parquet_files(dir)) > 1
    THEN LET dfs      == IF data_first
                         THEN dir[data_file_path].rows \o dir[part_file_path].rows
                         ELSE dir[part_file_path].rows \o dir[data_file_path].rows
             combined == sort_values(drop_duplicates_rows(dfs))
         IN [dir EXCEPT ![part_file_path] = NoFile,
                        ![data_file_path] = CompleteFile(combined)]
    ELSE dir

\* pd.read_parquet raises on a file that is no Parquet file, before
\* anything is removed
Readable(dir) == \A f \in parquet_files(dir) : dir[f].state = "complete"

compact_partitions(data_first) ==
    /\ \A p \in Partitions : Readable(lake[p])
    /\ lake' = [p \in Partitions |-> compact_dir(lake[p], data_first)]
    /\ last_op' = "compact"
    /\ last_read' = NoRead
    /\ UNCHANGED <<wp, not_archive_vars>>

\* another writer of the lake puts a small part file, of one row, into a
\* partition directory
part_file_written(p, r) ==
    /\ lake[p][part_file_path].state = "absent"
    /\ year_month(r.timestamp) = p
    /\ lake' = SetFile(lake, p, part_file_path, CompleteFile(<<r>>))
    /\ last_op' = "part_file"
    /\ last_read' = NoRead
    /\ UNCHANGED <<wp, not_archive_vars>>

NextArchive ==
    \/ \E d \in ArchiveFrames : write_partition_call(d)
    \/ write_table_open
    \/ write_table_close
    \/ rename
    \/ write_error
    \/ write_interrupted
    \/ \E sel \in {0} \cup Partitions : read_partition_call(sel)
    \/ \E data_first \in BOOLEAN : compact_partitions(data_first)
    \/ \E p \in Partitions, r \in ArchiveRows : part_file_written(p, r)

SpecArchive == Init /\ [][NextArchive]_vars

\* ------------------------------------------------------------ C21 .. C23
DataRows(l, p) == l[p][data_file_path].rows
WriteInProgressSteps == {"call", "write_table", "write_error", "interrupted"}

\* C21: partition writes are atomic.  No data file is ever half-written;
\* every step of write_partition before the rename, and its failure or
\* interruption at any point, leaves the data file of every partition as it
\* was; and read_partition returns exactly the rows of the data files, in
\* timestamp order, whatever temporary files lie next to them.
C21_AtomicPartitionWrite ==
    /\ [](\A p \in Partitions : lake[p][data_file_path].state # "partial")
    /\ [][last_op' \in WriteInProgressSteps =>
            \A p \in Partitions : lake'[p][data_file_path] = lake[p][data_file_path]]_vars
    /\ [](last_read.read = "done" =>
            last_read.rows =
                IF last_read.sel = 0
                THEN sort_values(DataRows(lake, 1)) \o sort_values(DataRows(lake, 2))
                ELSE sort_values(DataRows(lake, last_read.sel)))

\* a write into the first partition was interrupted while the temporary
\* file was half-written; the partition had a data file, and read_partition
\* returns its rows
C21_Witness ==
    /\ wp = WpIdle
    /\ lake[1][tmp_file_path].state = "partial"
    /\ lake[1][data_file_path].state = "complete"
    /\ last_read.read = "done" /\ last_read.sel = 1
    /\ last_read.rows = DataRows(lake, 1)
    /\ last_read.rows # <<>>

\* C22: archived data is immutable: no step of write_partition removes a
\* row from the data file of a partition (only compaction may).
C22_ArchivedCandlesStay ==
    [][last_op' \in WriteInProgressSteps \cup {"rename"} =>
        \A p \in Partitions :
            SeqRows(DataRows(lake, p)) \subseteq SeqRows(DataRows(lake', p))]_vars

FilesRows(dir) == UNION {SeqRows(dir[f].rows) : f \in parquet_files(dir)}
StrictlyAscending(s) == \A i \in 1..(Len(s) - 1) : s[i].timestamp < s[i + 1].timestamp

\* C23: after compact_partitions every partition that had files holds one
\* file; its rows are rows that were there before, they cover every
\* timestamp that was there before, each timestamp once, in ascending
\* order; and compacting again changes nothing.
C23_CompactMergesPartition ==
    [][last_op' = "compact" =>
        \A p \in Partitions :
            parquet_files(lake[p]) # {} =>
                /\ Cardinality(parquet_files(lake'[p])) = 1
                /\ FilesRows(lake'[p]) \subseteq FilesRows(lake[p])
                /\ {r.timestamp : r \in FilesRows(lake'[p])}
                       = {r.timestamp : r \in FilesRows(lake[p])}
                /\ \A f \in parquet_files(lake'[p]) : StrictlyAscending(lake'[p][f].rows)
                /\ \A b \in BOOLEAN : compact_dir(lake'[p], b) = lake'[p]]_vars

\* ----------------------------------------------------------- detect_gaps
not_gap_vars == <<store_vars, api_vars, backfill_vars, live_vars, stream_vars,
                  last_msg, thread_vars, archive_vars>>

\* a timeframe string as its number and its unit letter: "3m" is <<3, "m">>
GapTimeframes == {<<1, "m">>, <<3, "m">>}
GapTimestamps == {30 * k : k \in 0..MaxSlot}

\* _timeframe_to_seconds: value * multipliers.get(unit, 60)
multipliers(unit) ==
    CASE unit = "m" -> 60
      [] unit = "h" -> 3600
      [] unit = "d" -> 86400
      [] unit = "w" -> 604800
      [] OTHER -> 60
timeframe_to_seconds(timeframe) == timeframe[1] * multipliers(timeframe[2])

\* the SQL operator / on two integers, as the fraction num/den: integer
\* division in a DuckDB build whose / divides integers as integers,
\* the exact quotient in a build whose / is floating-point division
Divide(a, b, integer_division) ==
    IF integer_division THEN [num |-> a \div b, den |-> 1] ELSE [num |-> a, den |-> b]

\* LEAD(timestamp) OVER (ORDER BY timestamp): the next larger timestamp of
\* the key; the last row has none
HasLead(S, t) == \E u \in S : u > t
Lead(S, t) == SetMin({u \in S : u > t})

\* the query of detect_gaps over the rows of one key: the rows of the CTE
\* with gap_seconds > timeframe_seconds * 1.5, ORDER BY gap_start
RECURSIVE gaps_query(_, _, _, _)
gaps_query(S, rest, tf, integer_division) ==
    IF rest = {} THEN <<>>
    ELSE LET t == SetMin(rest)
             gap_seconds == Lead(S, t) - t
         IN (IF HasLead(S, t) /\ 2 * gap_seconds > 3 * tf
             THEN <<[gap_start |-> t, gap_end |-> Lead(S, t),
                     gap_seconds |-> gap_seconds,
                     missing_candles |-> Divide(gap_seconds, tf, integer_division)]>>
             ELSE <<>>)
            \o gaps_query(S, rest \ {t}, tf, integer_division)

detect_gaps(S, timeframe, integer_division) ==
    gaps_query(S, S, timeframe_to_seconds(timeframe), integer_division)

\* a candle of the key is stored
candle_stored(t) ==
    /\ t \notin series
    /\ series' = series \cup {t}
    /\ gaps' = NoGaps
    /\ UNCHANGED not_gap_vars

detect_gaps_call(timeframe, integer_division) ==
    /\ gaps' = [called |-> TRUE, timeframe |-> timeframe,
                rows |-> detect_gaps(series, timeframe, integer_division)]
    /\ UNCHANGED <<series, not_gap_vars>>

NextGaps ==
    \/ \E t \in GapTimestamps : candle_stored(t)
    \/ \E timeframe \in GapTimeframes, integer_division \in BOOLEAN :
           detect_gaps_call(timeframe, integer_division)

SpecGaps == Init /\ [][NextGaps]_vars

\* ------------------------------------------------------------ C24, C25
Consecutive(S, a, b) == a \in S /\ b \in S /\ a < b /\ ~ \E c \in S : a < c /\ c < b
Equals(q, n) == q.num = n * q.den

\* C24: detect_gaps reports exactly the pairs of consecutive candles whose
\* delta exceeds 1.5 nominal intervals, ordered by gap start, each with
\* missing_candles = delta / nominal interval rounded down.
C24_GapsReported ==
    gaps.called =>
        LET tf == timeframe_to_seconds(gaps.timeframe)
            n  == Len(gaps.rows)
        IN /\ \A a, b \in series :
                (Consecutive(series, a, b) /\ 2 * (b - a) > 3 * tf)
                    <=> \E i \in 1..n : gaps.rows[i].gap_start = a /\ gaps.rows[i].gap_end = b
           /\ \A i \in 1..n : Consecutive(series, gaps.rows[i].gap_start, gaps.rows[i].gap_end)
           /\ \A i, j \in 1..n : i < j => gaps.rows[i].gap_start < gaps.rows[j].gap_start
           /\ \A i \in 1..n :
                Equals(gaps.rows[i].missing_candles,
                       (gaps.rows[i].gap_end - gaps.rows[i].gap_start) \div tf)

\* the series is contiguous at the interval tf but for one candle, at hole
OneMissing(S, tf, hole) ==
    /\ hole \notin S
    /\ hole - tf \in S /\ hole + tf \in S
    /\ \A a, b \in S \cup {hole} : Consecutive(S \cup {hole}, a, b) => b - a = tf

\* C25: when exactly one candle is missing from an otherwise contiguous
\* series, detect_gaps returns exactly one gap, from the candle before the
\* hole to the candle after it, with missing_candles = 1.
C25_OneMissingCandle ==
    gaps.called =>
        LET tf == timeframe_to_seconds(gaps.timeframe)
        IN \A hole \in GapTimestamps :
            OneMissing(series, tf, hole) =>
                /\ Len(gaps.rows) = 1
                /\ gaps.rows[1].gap_start = hole - tf
                /\ gaps.rows[1].gap_end = hole + tf
                /\ Equals(gaps.rows[1].missing_candles, 1)

\* ------------------------------------------------------------------ C26
\* a step of the page loop in which the request for the page failed
PageFailed ==
    /\ bf.pc = "fetching" /\ bf'.pc \in {"fetching", "fetched"}
    /\ bf'.all_data = bf.all_data
    /\ \/ bf'.attempts # bf.attempts
       \/ Len(bf'.failed_batches) # Len(bf.failed_batches)

\* a step of the page loop in which the page arrived
PageFetched ==
    /\ bf.pc = "fetching" /\ bf'.pc \in {"fetching", "fetched"}
    /\ bf'.all_data # bf.all_data

\* C26: a page fails at most max_retries (3) times before the cursor moves
\* on.  A failure below the bound leaves the cursor where it is and sleeps
\* 2^attempt seconds; the failure that reaches the bound moves the cursor
\* forward by exactly one batch-width, with the skipped page recorded; the
\* retry counter is zero after a skip and after every successful page.
C26_RetryBoundAndSkip ==
    /\ [](bf.pc = "fetching" => bf.attempts < max_retries)
    /\ [][PageFailed =>
            IF bf.attempts + 1 >= max_retries
            THEN /\ bf'.current_timestamp = bf.current_timestamp + BatchSize
                 /\ \E i \in 1..Len(bf'.failed_batches) :
                        bf'.failed_batches[i].timestamp = bf.current_timestamp
                 /\ bf'.retry_count = 0
            ELSE /\ bf'.current_timestamp = bf.current_timestamp
                 /\ bf'.slept = Pow2(bf.attempts + 1)]_vars
    /\ [][PageFetched => bf'.retry_count = 0]_vars

\* ------------------------------------------------------------------ C27
IsPrefix(a, b) == Len(a) <= Len(b) /\ SubSeq(b, 1, Len(a)) = a

\* C27: whatever the order of kline callbacks (which append, and flush a
\* full buffer) and periodic flushes, candles leave the buffer only in a
\* clear whose flush processed exactly the candles the buffer held,
\* the one appended in the same callback included; a step without a clear
\* keeps every candle, in order.
C27_FlushDrainsAtomically ==
    [][/\ received' = received + 1 =>
            IF buffer' = <<>>
            THEN /\ IsPrefix(buffer, last_flush'.copy)
                 /\ Len(last_flush'.copy) = Len(buffer) + 1
            ELSE /\ IsPrefix(buffer, buffer')
                 /\ Len(buffer') = Len(buffer) + 1
       /\ received' = received =>
            \/ buffer' = buffer
            \/ buffer' = <<>> /\ last_flush'.copy = buffer]_vars

\* periodic flushes failed twice on a buffer that was not full and kept its
\* candles; the callback that filled the buffer appended its candle and
\* flushed, the third failure, and the clear took exactly the copy, which
\* is in the dead-letter entry
C27_Witness ==
    /\ last_msg.called
    /\ received = BufferSize
    /\ last_flush.outcome = "failed"
    /\ last_flush.failures = max_retry_count
    /\ Len(last_flush.copy) = BufferSize
    /\ buffer = <<>>
    /\ dead_letter # <<>>
    /\ dead_letter[Len(dead_letter)].data = last_flush.copy

\* ------------------------------------------------------------------ C28
\* a round of reconnect_with_backoff in which connect raised
ReconnectFailed ==
    /\ loop = "reconnecting" /\ loop' = "reconnecting"
    /\ ~connected'
    /\ reconnect_delay' # reconnect_delay \/ connects' # connects

\* C28: the reconnect delay is always between 1 and max_reconnect_delay;
\* a failed connection attempt doubles it, capped at max_reconnect_delay;
\* a successful connect leaves it at 1.
C28_ReconnectDelay ==
    /\ [](1 <= reconnect_delay /\ reconnect_delay <= max_reconnect_delay)
    /\ [][ReconnectFailed =>
            reconnect_delay' = Min(2 * reconnect_delay, max_reconnect_delay)]_vars
    /\ [][~connected /\ connected' => reconnect_delay' = 1]_vars

\* ------------------------------------------------------------------ C29
NoChannelTwice(s) == \A i, j \in 1..Len(s) : s[i] = s[j] => i = j

\* C29: the recorded subscription list holds no channel twice, and a
\* connect (the first one or a reconnect) leaves the list as it was.
C29_SubscriptionsStable ==
    /\ [][connects' # connects => subscriptions' = subscriptions]_vars
    /\ [](NoChannelTwice(subscriptions))

\* ------------------------------------------------------------------ C30
\* the candles that were in the buffer, or appended in this step, and are
\* not in the buffer after it: those of the copy of a flush that cleared
Left == IF buffer' = <<>> /\ last_flush'.outcome \in {"flushed", "no_valid_data", "failed"}
        THEN SeqRows(last_flush'.copy) ELSE {}

Stored(table, candle) == Row("binance", candle.timestamp, candle) \in Rows(table)
DeadLettered(dlq, candle) ==
    \E i \in 1..Len(dlq) :
        \/ candle \in SeqRows(dlq[i].data)
        \/ Row("binance", candle.timestamp, candle) \in SeqRows(dlq[i].data)

\* C30: every candle that leaves the live buffer is, at that moment, a row
\* of the store or part of a dead-letter entry.
C30_NoCandleLost ==
    [][\A candle \in Left :
          Stored(ohlcv_raw', candle) \/ DeadLettered(dead_letter', candle)]_vars

====
